---- MODULE Spec2Model ----
(***************************************************************************)
(* A model of mysql_fdw.c: the foreign-data wrapper callbacks              *)
(* (plan, explain, begin, iterate, rescan, end), the option resolver and   *)
(* the per-row conversion loop of mysqlIterateForeignScan.                 *)
(*                                                                         *)
(* Strings are sequences of one-character strings, remote field values are *)
(* sequences of byte values, C indices (x, y) are kept 0-based.            *)
(***************************************************************************)
EXTENDS Integers, Sequences, FiniteSets, TLC

VARIABLES
    catalog,    \* the options stored for the foreign table, its server, its user mapping
    desc,       \* the host tuple descriptor of the foreign table (rd_att)
    remote,     \* the result set the remote server returns for the scan query
    phase,      \* where the host is in the callback protocol
    festate,    \* node->fdw_state: NULLP or a MySQLFdwExecutionState
    connSt,     \* the scan's MYSQL handle as the client library sees it
    resSt,      \* the scan's MYSQL_RES as the client library sees it
    bufSt,      \* the query string buffer as the allocator sees it
    pos,        \* the data cursor of the stored result: rows fetched since the last seek
    counts,     \* client-library and allocator calls made for the current scan
    slot,       \* the scan tuple slot as the host reads it after the callback
    conv,       \* what the conversion loop did with the row of the last iterate call
    fetched,    \* rows returned since the query was executed or the cursor was last repositioned
    lastCall,   \* the callback that ran last
    raised,     \* the ERROR the last callback raised, or NoError
    planOut,    \* the FdwPlan of the last plan call and what became of its connection
    explainOut, \* the properties the last explain call emitted
    connArgs,   \* what the scan's begin passed to mysql_real_connect
    validated   \* the last call of mysql_fdw_validator: its arguments and its error

vars == <<catalog, desc, remote, phase, festate, connSt, resSt, bufSt, pos, counts,
          slot, conv, fetched, lastCall, raised, planOut, explainOut, connArgs, validated>>

envVars == <<catalog, desc, remote>>

(***************************************************************************)
(* Bounds of the model.                                                    *)
(***************************************************************************)
MaxAtts == 3          \* columns of a host descriptor, dropped ones included
MaxFields == 2        \* fields of a remote result set
MaxRows == 2          \* rows of a remote result set
MaxOverrun == 1       \* descriptor slots past its end whose content is enumerated
MaxTableOpts == 2     \* options stored on the foreign table
MaxServerOpts == 1    \* options stored on the foreign server
MaxMappingOpts == 1   \* options stored on the user mapping
MaxExplainRows == 1   \* rows of the remote EXPLAIN output
MaxValidatorOpts == 3 \* options handed to the validator in one call
MaxEnds == 2          \* end calls made on one scan state
MaxLayerOpts == 1     \* options on one object of a wrapper without a validator

(***************************************************************************)
(* Values.                                                                 *)
(***************************************************************************)
NULLP == "NULL"                 \* a null handle pointer
NullStr == <<>>                 \* a null char *: no string
NoError == "none"
HANDLE == "MYSQL"               \* a non-null MYSQL *
RES == "MYSQL_RES"              \* a non-null MYSQL_RES *
NoConv == "none"                \* no row was converted by the last call

Min(a, b) == IF a < b THEN a ELSE b

SeqsUpTo(S, n) == UNION {[1..k -> S] : k \in 0..n}

(***************************************************************************)
(* A char * is NullStr when it is NULL and <<s>> when it points at the     *)
(* string s, so that an empty string is not taken for a null pointer.      *)
(***************************************************************************)
PtrTo(s) == <<s>>

Deref(p) == p[1]

(***************************************************************************)
(* Errors: the errcode and the fixed part of the errmsg of an ereport.     *)
(***************************************************************************)
NoErr == [code |-> NoError, msg |-> ""]

Err(code, msg) == [code |-> code, msg |-> msg]

(***************************************************************************)
(* Option names (valid_options) and the strings the code compares with or  *)
(* builds from.                                                            *)
(***************************************************************************)
valid_options ==
    { [optname |-> "address",  optcontext |-> "ForeignServerRelationId"],
      [optname |-> "port",     optcontext |-> "ForeignServerRelationId"],
      [optname |-> "username", optcontext |-> "UserMappingRelationId"],
      [optname |-> "password", optcontext |-> "UserMappingRelationId"],
      [optname |-> "database", optcontext |-> "ForeignTableRelationId"],
      [optname |-> "query",    optcontext |-> "ForeignTableRelationId"],
      [optname |-> "table",    optcontext |-> "ForeignTableRelationId"] }

Loopback == <<"1","2","7",".","0",".","0",".","1">>

Localhost == <<"l","o","c","a","l","h","o","s","t">>

DefaultPort == 3306

SelectPrefix == <<"S","E","L","E","C","T"," ","*"," ","F","R","O","M"," ">>

ExplainPrefix == <<"E","X","P","L","A","I","N"," ">>

(***************************************************************************)
(* atoi: the value of the leading run of decimal digits, 0 when there is   *)
(* none (signs and leading blanks do not occur in the values enumerated).  *)
(***************************************************************************)
DigitChars == <<"0","1","2","3","4","5","6","7","8","9">>

IsDigit(c) == \E d \in 1..10 : DigitChars[d] = c

DigitVal(c) == (CHOOSE d \in 1..10 : DigitChars[d] = c) - 1

RECURSIVE AtoiFrom(_, _, _)
AtoiFrom(s, i, acc) ==
    IF i > Len(s) \/ ~IsDigit(s[i]) THEN acc
    ELSE AtoiFrom(s, i + 1, acc * 10 + DigitVal(s[i]))

atoi(s) == AtoiFrom(s, 1, 0)

(***************************************************************************)
(* mysqlGetOptions: the three option lists concatenated, scanned front to  *)
(* back, every match assigning its output; then the defaults and the check *)
(* that a table or a query is there.  The outputs start as the callers     *)
(* initialise them (NULL, port 0).                                         *)
(***************************************************************************)
NoOptions ==
    [address |-> NullStr, port |-> 0, username |-> NullStr, password |-> NullStr,
     database |-> NullStr, query |-> NullStr, table |-> NullStr]

ConcatOptions(cat) == cat.table \o cat.server \o cat.mapping

(* A variant in which an output that is set is not assigned again. *)
AssignOptionFirstWins(o, def) ==
    LET n == def.defname
        v == PtrTo(def.arg)
    IN  [address  |-> IF n = "address"  /\ o.address = NullStr  THEN v ELSE o.address,
         port     |-> IF n = "port"     /\ o.port = 0 THEN atoi(def.arg) ELSE o.port,
         username |-> IF n = "username" /\ o.username = NullStr THEN v ELSE o.username,
         password |-> IF n = "password" /\ o.password = NullStr THEN v ELSE o.password,
         database |-> IF n = "database" /\ o.database = NullStr THEN v ELSE o.database,
         query    |-> IF n = "query"    /\ o.query = NullStr    THEN v ELSE o.query,
         table    |-> IF n = "table"    /\ o.table = NullStr    THEN v ELSE o.table]

AssignOption(o, def) ==
    LET n == def.defname
        v == PtrTo(def.arg)
    IN  [address  |-> IF n = "address"  THEN v ELSE o.address,
         port     |-> IF n = "port"     THEN atoi(def.arg) ELSE o.port,
         username |-> IF n = "username" THEN v ELSE o.username,
         password |-> IF n = "password" THEN v ELSE o.password,
         database |-> IF n = "database" THEN v ELSE o.database,
         query    |-> IF n = "query"    THEN v ELSE o.query,
         table    |-> IF n = "table"    THEN v ELSE o.table]

RECURSIVE ScanOptions(_, _, _)
ScanOptions(options, i, o) ==
    IF i > Len(options) THEN o
    ELSE ScanOptions(options, i + 1, AssignOption(o, options[i]))

ApplyDefaults(o) ==
    [o EXCEPT !.address = IF o.address = NullStr THEN PtrTo(Loopback) ELSE o.address,
              !.port = IF o.port = 0 THEN DefaultPort ELSE o.port]

(* A variant that tests the table alone when a query is there. *)
MissingTableWithQuery(o) == o.table = NullStr /\ o.query # NullStr

MissingTableOrQuery(o) == o.table = NullStr /\ o.query = NullStr

(* A variant that also refuses a table and a query given together. *)
OptionsErrorExclusive(o) ==
    IF o.table = NullStr /\ o.query = NullStr
    THEN Err("ERRCODE_SYNTAX_ERROR", "either a table or a query must be specified")
    ELSE IF o.table # NullStr /\ o.query # NullStr
    THEN Err("ERRCODE_SYNTAX_ERROR", "table and query cannot be specified together")
    ELSE NoErr

OptionsError(o) ==
    IF MissingTableOrQuery(o)
    THEN Err("ERRCODE_SYNTAX_ERROR", "either a table or a query must be specified")
    ELSE NoErr

mysqlGetOptions(cat) ==
    LET o == ApplyDefaults(ScanOptions(ConcatOptions(cat), 1, NoOptions))
    IN  [opts |-> o, err |-> OptionsError(o)]

(***************************************************************************)
(* mysql_fdw_validator, lines 143-271, and mysqlIsValidOption, lines       *)
(* 278-289.  The options of one object are scanned front to back with the  *)
(* seven outputs starting NULL (port 0); the first error ends the scan.    *)
(* Each option is tested for its object, then taken through the three      *)
(* if-chains of the loop body: address and port, username, and password to *)
(* table.  A step gives the outputs and the error.                         *)
(***************************************************************************)
mysqlIsValidOption(option, context) ==
    \E opt \in valid_options : context = opt.optcontext /\ opt.optname = option

Accepted(o) == [o |-> o, err |-> NoErr]

Refused(o, msg) == [o |-> o, err |-> Err("ERRCODE_SYNTAX_ERROR", msg)]

ValidateAddress(o, def) ==
    IF o.address # NullStr
    THEN Refused(o, "conflicting or redundant options: address")
    ELSE Accepted([o EXCEPT !.address = PtrTo(def.arg)])

ValidatePort(o, def) ==
    IF o.port # 0
    THEN Refused(o, "conflicting or redundant options: port")
    ELSE Accepted([o EXCEPT !.port = atoi(def.arg)])

ValidateUsername(o, def) ==
    IF o.username # NullStr
    THEN Refused(o, "conflicting or redundant options: username")
    ELSE Accepted([o EXCEPT !.username = PtrTo(def.arg)])

ValidatePassword(o, def) ==
    IF o.password # NullStr
    THEN Refused(o, "conflicting or redundant options: password")
    ELSE Accepted([o EXCEPT !.password = PtrTo(def.arg)])

ValidateDatabase(o, def) ==
    IF o.database # NullStr
    THEN Refused(o, "conflicting or redundant options: database")
    ELSE Accepted([o EXCEPT !.database = PtrTo(def.arg)])

(* A variant that does not look for a table before it takes a query. *)
ValidateQueryAlone(o, def) ==
    IF o.query # NullStr
    THEN Refused(o, "conflicting or redundant options: query")
    ELSE Accepted([o EXCEPT !.query = PtrTo(def.arg)])

ValidateQuery(o, def) ==
    IF o.table # NullStr
    THEN Refused(o, "conflicting options: query cannot be used with table")
    ELSE IF o.query # NullStr
    THEN Refused(o, "conflicting or redundant options: query")
    ELSE Accepted([o EXCEPT !.query = PtrTo(def.arg)])

ValidateTable(o, def) ==
    IF o.query # NullStr
    THEN Refused(o, "conflicting options: table cannot be used with query")
    ELSE IF o.table # NullStr
    THEN Refused(o, "conflicting or redundant options: table")
    ELSE Accepted([o EXCEPT !.table = PtrTo(def.arg)])

(* Lines 189-207. *)
AddressPortChain(o, def) ==
    IF def.defname = "address" THEN ValidateAddress(o, def)
    ELSE IF def.defname = "port" THEN ValidatePort(o, def)
    ELSE Accepted(o)

(* Lines 208-216. *)
UsernameChain(o, def) ==
    IF def.defname = "username" THEN ValidateUsername(o, def)
    ELSE Accepted(o)

(* Lines 217-267. *)
PasswordTableChain(o, def) ==
    IF def.defname = "password" THEN ValidatePassword(o, def)
    ELSE IF def.defname = "database" THEN ValidateDatabase(o, def)
    ELSE IF def.defname = "query" THEN ValidateQuery(o, def)
    ELSE IF def.defname = "table" THEN ValidateTable(o, def)
    ELSE Accepted(o)

ValidateOption(o, def, context) ==
    IF ~mysqlIsValidOption(def.defname, context)
    THEN [o |-> o, err |-> Err("ERRCODE_FDW_INVALID_OPTION_NAME", "invalid option")]
    ELSE LET r1 == AddressPortChain(o, def)
             r2 == UsernameChain(r1.o, def)
         IN  IF r1.err # NoErr THEN r1
             ELSE IF r2.err # NoErr THEN r2
             ELSE PasswordTableChain(r2.o, def)

RECURSIVE ValidateFrom(_, _, _, _)
ValidateFrom(options_list, i, o, context) ==
    IF i > Len(options_list) THEN NoErr
    ELSE LET r == ValidateOption(o, options_list[i], context)
         IN  IF r.err # NoErr THEN r.err
             ELSE ValidateFrom(options_list, i + 1, r.o, context)

mysql_fdw_validator(options_list, context) ==
    ValidateFrom(options_list, 1, NoOptions, context)

(***************************************************************************)
(* The catalogs enumerated: per object a list of options with distinct     *)
(* names (the host refuses an option given twice for one object), each     *)
(* option on the object valid_options places it on.                        *)
(***************************************************************************)
DefElem(n, v) == [defname |-> n, arg |-> v]

TableDefs ==
    { DefElem("database", <<"d">>), DefElem("query", <<"Q">>),
      DefElem("table", <<"t">>), DefElem("table", <<"o","r">>) }

ServerDefs ==
    { DefElem("address", Loopback), DefElem("address", Localhost),
      DefElem("address", <<"d","b">>),
      DefElem("port", <<"7">>), DefElem("port", <<"0">>) }

MappingDefs == { DefElem("username", <<"u">>), DefElem("password", <<"p">>) }

DistinctNames(s) ==
    \A i, j \in 1..Len(s) : i # j => s[i].defname # s[j].defname

OptionLists(defs, n) == {s \in SeqsUpTo(defs, n) : DistinctNames(s)}

Catalogs ==
    [table : OptionLists(TableDefs, MaxTableOpts),
     server : OptionLists(ServerDefs, MaxServerOpts),
     mapping : OptionLists(MappingDefs, MaxMappingOpts)]

ScanCatalogs ==
    { [table |-> <<DefElem("table", <<"t">>)>>, server |-> <<>>, mapping |-> <<>>],
      [table |-> <<DefElem("query", <<"Q">>)>>,
       server |-> <<DefElem("address", <<"d","b">>)>>, mapping |-> <<>>] }

(***************************************************************************)
(* The catalogs of a wrapper created without a validator: any option may   *)
(* sit on any object, so a name can be on the table, on the server and on  *)
(* the mapping at once; on one object the names are still distinct.        *)
(***************************************************************************)
LayerDefs ==
    { DefElem("port", <<"7">>), DefElem("port", <<"0">>),
      DefElem("table", <<"t">>), DefElem("table", <<"u">>) }

LayeredCatalogs ==
    [table : OptionLists(LayerDefs, MaxLayerOpts),
     server : OptionLists(LayerDefs, MaxLayerOpts),
     mapping : OptionLists(LayerDefs, MaxLayerOpts)]

(***************************************************************************)
(* The host descriptor: per column the dropped flag and the type.  Three   *)
(* types stand for the host's: text, of the string category, whose input   *)
(* function takes any validated string; varbit, whose input function takes *)
(* the empty string and strings of the digits 0 and 1; and int4, whose     *)
(* input function takes strings of decimal digits but not the empty        *)
(* string.  An input function raises an error on anything else.            *)
(***************************************************************************)
TYPCATEGORY_STRING == "S"

TYPCATEGORY_BITSTRING == "V"

TYPCATEGORY_NUMERIC == "N"

TypeCategory(typ) ==
    IF typ = "text" THEN TYPCATEGORY_STRING
    ELSE IF typ = "int4" THEN TYPCATEGORY_NUMERIC
    ELSE TYPCATEGORY_BITSTRING

Attrs ==
    { [attisdropped |-> FALSE, typ |-> "text"],
      [attisdropped |-> FALSE, typ |-> "varbit"],
      [attisdropped |-> FALSE, typ |-> "int4"],
      [attisdropped |-> TRUE, typ |-> "dropped"] }

Descs == {d \in SeqsUpTo(Attrs, MaxAtts) : Len(d) >= 1}

(***************************************************************************)
(* Datums and the cells of an output row.                                  *)
(***************************************************************************)
Datum0 == [typ |-> "zero", str |-> <<>>]            \* (Datum) 0

GarbageDatum == [typ |-> "garbage", str |-> <<>>]   \* whatever the memory held

NullCell == [isnull |-> TRUE, value |-> Datum0]

ValCell(v) == [isnull |-> FALSE, value |-> v]

GarbageCells == {NullCell, ValCell(GarbageDatum)}

BitChars == {48, 49}

DecimalChars == 48..57

InputFunctionCall(typ, str) ==
    IF \/ typ = "varbit" /\ \E i \in 1..Len(str) : str[i] \notin BitChars
       \/ typ = "int4" /\ (Len(str) = 0 \/ \E i \in 1..Len(str) : str[i] \notin DecimalChars)
    THEN [err |-> Err("ERRCODE_INVALID_TEXT_REPRESENTATION", "invalid input syntax"),
          value |-> Datum0]
    ELSE [err |-> NoErr, value |-> [typ |-> typ, str |-> str]]

(***************************************************************************)
(* mysqlVerifymbstr, for a UTF8 database: pg_verifymbstr accepts the       *)
(* 7-bit bytes (the only well-formed sequences among the bytes used here). *)
(* On failure the hex dump of at most 8 bytes is built in buf and a        *)
(* WARNING is reported whose argument is mbstr itself.                     *)
(***************************************************************************)
pg_verifymbstr(mbstr, len) == \A i \in 1..len : mbstr[i] < 128

pg_encoding_mblen(mbstr) ==
    LET c == mbstr[1]
    IN  IF c < 128 THEN 1
        ELSE IF c \div 32 = 6 THEN 2
        ELSE IF c \div 16 = 14 THEN 3
        ELSE IF c \div 8 = 30 THEN 4
        ELSE 1

HexDigits == <<"0","1","2","3","4","5","6","7","8","9","a","b","c","d","e","f">>

HexByte(b) == <<"0", "x", HexDigits[(b \div 16) + 1], HexDigits[(b % 16) + 1]>>

HexBufLimit == 8

RECURSIVE HexDump(_, _, _)
HexDump(mbstr, j, jlimit) ==
    IF j >= jlimit THEN <<>>
    ELSE HexByte(mbstr[j + 1])
         \o (IF j < jlimit - 1 THEN <<" ">> ELSE <<>>)
         \o HexDump(mbstr, j + 1, jlimit)

(* A variant that lets every byte sequence through. *)
mysqlVerifymbstrTrusting(mbstr, len) == [ok |-> TRUE, warnings |-> <<>>]

mysqlVerifymbstr(mbstr, len) ==
    IF ~pg_verifymbstr(mbstr, len)
    THEN LET l == pg_encoding_mblen(mbstr)
             jlimit == Min(Min(l, len), HexBufLimit)
         IN  [ok |-> FALSE,
              warnings |-> << [code |-> "ERRCODE_CHARACTER_NOT_IN_REPERTOIRE",
                               buf |-> HexDump(mbstr, 0, jlimit),
                               arg |-> mbstr] >>]
    ELSE [ok |-> TRUE, warnings |-> <<>>]

(***************************************************************************)
(* The remote result set: num_fields fields, nrows rows.  A field is a     *)
(* null pointer (SQL NULL) or points at its bytes: no bytes, a digit, or a *)
(* byte no encoding takes.  Field x of row i holds the value               *)
(* (x-1)*stride + (i-1) places after first in FieldCycle: the rows of one  *)
(* result set differ in every field, every content of one or two fields    *)
(* occurs as a row, and it occurs at every row position.                   *)
(***************************************************************************)
FieldCycle == << NullStr, PtrTo(<<>>), PtrTo(<<49>>), PtrTo(<<255>>) >>

RemoteRow(r, i) ==
    [x \in 1..r.num_fields |->
        FieldCycle[((r.first - 1 + (x - 1) * r.stride + (i - 1)) % Len(FieldCycle)) + 1]]

ResultSets ==
    { r \in [num_fields : 1..MaxFields, nrows : 0..MaxRows,
             first : 1..Len(FieldCycle), stride : 0..(Len(FieldCycle) - 1)] :
        /\ r.num_fields = 1 => r.stride = 0
        /\ r.nrows = 0 => r.first = 1 /\ r.stride = 0 }

(***************************************************************************)
(* The conversion loop of mysqlIterateForeignScan, lines 680-731.          *)
(*                                                                         *)
(* nulls and dvalues are allocated with num_fields slots.  The loop reads  *)
(* the descriptor at y and writes both arrays at y; acc records every y    *)
(* read and every write.  A read of the descriptor past its end is         *)
(* undefined: the flag read there is taken from garbage, a sequence of the *)
(* flags found in the MaxOverrun slots after the descriptor, and reading   *)
(* further, or using the type data found past the end, ends the backend.   *)
(***************************************************************************)
Garbages == SeqsUpTo({"T", "F"}, MaxOverrun)

NoConvRow ==
    [status |-> NoConv, rownum |-> 0, row |-> <<>>, alloc |-> 0, natts |-> 0, x |-> 0,
     reads |-> {}, writes |-> {}, notices |-> <<>>, warnings |-> <<>>, err |-> NoErr]

ReadDropped(d, garbage, y) ==
    IF y < Len(d) THEN (IF d[y + 1].attisdropped THEN "T" ELSE "F")
    ELSE IF y - Len(d) + 1 <= Len(garbage) THEN garbage[y - Len(d) + 1]
    ELSE "crash"

(* A variant that takes a field without bytes for a NULL. *)
IsNullOrEmptyField(field) == field = NullStr \/ field = PtrTo(<<>>)

IsNullField(field) == field = NullStr

ConvertField(d, field, y) ==
    IF IsNullField(field)
    THEN [status |-> "ok", cell |-> NullCell, warnings |-> <<>>, err |-> NoErr]
    ELSE IF y >= Len(d)
    THEN [status |-> "crash", cell |-> NullCell, warnings |-> <<>>, err |-> NoErr]
    ELSE LET typ == d[y + 1].typ
             str == Deref(field)
             length == Len(str)
         IN  IF length = 0
             THEN LET r == InputFunctionCall(typ, <<>>)
                  IN  [status |-> IF r.err = NoErr THEN "ok" ELSE "error",
                       cell |-> ValCell(r.value), warnings |-> <<>>, err |-> r.err]
             ELSE LET v == IF TypeCategory(typ) = TYPCATEGORY_STRING
                           THEN mysqlVerifymbstr(str, length)
                           ELSE [ok |-> TRUE, warnings |-> <<>>]
                      encoding_error == ~v.ok
                      r == InputFunctionCall(typ, str)
                  IN  IF encoding_error
                      THEN [status |-> "ok", cell |-> NullCell,
                            warnings |-> v.warnings, err |-> NoErr]
                      ELSE [status |-> IF r.err = NoErr THEN "ok" ELSE "error",
                            cell |-> ValCell(r.value), warnings |-> <<>>, err |-> r.err]

RECURSIVE ConvLoop(_, _, _, _, _, _, _)
ConvLoop(d, nf, row, garbage, x, y, acc) ==
    IF x >= nf THEN [acc EXCEPT !.status = "row", !.x = x]
    ELSE LET dropped == ReadDropped(d, garbage, y)
             acc1 == [acc EXCEPT !.reads = @ \cup {y}, !.x = x]
         IN  IF dropped = "crash" THEN [acc1 EXCEPT !.status = "crash"]
             ELSE IF dropped = "T"
             THEN ConvLoop(d, nf, row, garbage, x, y + 1,
                           [acc1 EXCEPT
                              !.writes = @ \cup {[y |-> y, x |-> -1, cell |-> NullCell]},
                              !.notices = Append(@, y)])
             ELSE LET r == ConvertField(d, row[x + 1], y)
                      acc2 == [acc1 EXCEPT !.warnings = @ \o r.warnings]
                  IN  IF r.status = "ok"
                      THEN ConvLoop(d, nf, row, garbage, x + 1, y + 1,
                                    [acc2 EXCEPT
                                       !.writes = @ \cup {[y |-> y, x |-> x, cell |-> r.cell]}])
                      ELSE [acc2 EXCEPT !.status = r.status, !.err = r.err]

ConvertRow(d, nf, row, garbage) ==
    ConvLoop(d, nf, row, garbage, 0, 0,
             [NoConvRow EXCEPT !.row = row, !.alloc = nf, !.natts = Len(d)])

HeapOverrun(c) == \E w \in c.writes : w.y >= c.alloc

DescOverrun(c) == \E y \in c.reads : y >= c.natts

(***************************************************************************)
(* The row the host reads from the slot: natts cells of tts_values and     *)
(* tts_isnull.  A cell inside the allocation holds what the loop wrote; a  *)
(* cell past it holds what was written there or whatever the memory holds. *)
(***************************************************************************)
WrittenCells(c, k) == {w.cell : w \in {v \in c.writes : v.y = k}}

CellChoices(c, k) ==
    IF k < c.alloc /\ WrittenCells(c, k) # {} THEN WrittenCells(c, k)
    ELSE WrittenCells(c, k) \cup GarbageCells

RECURSIVE HostRowsFrom(_, _)
HostRowsFrom(c, k) ==
    IF k >= c.natts THEN {<<>>}
    ELSE { <<cell>> \o rest : cell \in CellChoices(c, k), rest \in HostRowsFrom(c, k + 1) }

HostRows(c) == HostRowsFrom(c, 0)

(***************************************************************************)
(* The scan state and the resources behind it.                             *)
(***************************************************************************)
NoState == [conn |-> NULLP, result |-> NULLP, query |-> NullStr, num_fields |-> 0]

NoCounts ==
    [init |-> 0, connect |-> 0, close |-> 0, query |-> 0, store |-> 0,
     free_result |-> 0, freed_open |-> 0, pfree |-> 0, end |-> 0]

EmptySlot == [empty |-> TRUE, cells |-> <<>>]

(* The arguments of mysql_real_connect that come from the options. *)
ConnectArgs(o) ==
    [address |-> o.address, username |-> o.username, password |-> o.password,
     database |-> o.database, port |-> o.port]

NoConnArgs == ConnectArgs(NoOptions)

NoPlan ==
    [status |-> "none", startup_cost |-> 0, rows |-> 0, total_cost |-> 0,
     query |-> NullStr, connSt |-> "none", resSt |-> "none", counts |-> NoCounts,
     connArgs |-> NoConnArgs, explain |-> <<>>]

NoExplain == [emitted |-> FALSE, label |-> "", cost |-> 0, query |-> NullStr]

NoScan ==
    [festate |-> NoState, connSt |-> "none", resSt |-> "none", bufSt |-> "none",
     pos |-> 0, counts |-> NoCounts, raised |-> NoErr, phase |-> "idle",
     connArgs |-> NoConnArgs]

Count(c, f) == [c EXCEPT ![f] = @ + 1]

(* A mysql_free_result call counted; conn is the state of the session the *)
(* result came from when the call is made.                                *)
CountFree(c, conn) ==
    Count(IF conn = "open" THEN Count(c, "freed_open") ELSE c, "free_result")

(* snprintf(buf, len, ...): at most len - 1 characters of the formatted text. *)
Snprintf(len, text) == SubSeq(text, 1, Min(Len(text), len - 1))

(* A variant that leaves no room for the terminating NUL. *)
SelectLenNoTerminator(table) == Len(table) + 14

SelectLen(table) == Len(table) + 15

ScanQuery(o) ==
    IF o.query # NullStr THEN Deref(o.query)
    ELSE Snprintf(SelectLen(Deref(o.table)), SelectPrefix \o Deref(o.table))

(***************************************************************************)
(* The scan as the callbacks see it: the fields of NoScan, read from and   *)
(* written back to the variables.                                          *)
(***************************************************************************)
Scan ==
    [festate |-> festate, connSt |-> connSt, resSt |-> resSt, bufSt |-> bufSt,
     pos |-> pos, counts |-> counts, raised |-> NoErr, phase |-> phase,
     connArgs |-> connArgs]

SetScan(s) ==
    /\ festate' = s.festate
    /\ connSt' = s.connSt
    /\ resSt' = s.resSt
    /\ bufSt' = s.bufSt
    /\ pos' = s.pos
    /\ counts' = s.counts
    /\ raised' = s.raised
    /\ phase' = s.phase
    /\ connArgs' = s.connArgs

(***************************************************************************)
(* mysqlBeginForeignScan, lines 513-569.  initOk and connOk are what       *)
(* mysql_init and mysql_real_connect answer.                               *)
(***************************************************************************)
BeginConnectFailure(s) ==
    [s EXCEPT !.connSt = "init",
              !.raised = Err("ERRCODE_FDW_UNABLE_TO_ESTABLISH_CONNECTION",
                             "failed to connect to MySQL")]

BeginScan(cat, initOk, connOk) ==
    LET r == mysqlGetOptions(cat)
        s1 == [NoScan EXCEPT !.counts = Count(@, "init")]
        s2 == [s1 EXCEPT !.counts = Count(@, "connect"), !.connArgs = ConnectArgs(r.opts)]
    IN  IF r.err # NoErr THEN [NoScan EXCEPT !.raised = r.err]
        ELSE IF ~initOk
        THEN [s1 EXCEPT !.raised = Err("ERRCODE_FDW_OUT_OF_MEMORY",
                                       "failed to initialise the MySQL connection object")]
        ELSE IF ~connOk THEN BeginConnectFailure(s2)
        ELSE [s2 EXCEPT
                !.festate = [conn |-> HANDLE, result |-> NULLP,
                             query |-> PtrTo(ScanQuery(r.opts)), num_fields |-> 0],
                !.connSt = "open",
                !.bufSt = IF r.opts.query # NullStr THEN "option" ELSE "palloc",
                !.phase = "begun"]

(* The answers that differ: mysql_real_connect is not called when mysql_init failed. *)
BeginAnswers == { <<FALSE, TRUE>>, <<TRUE, FALSE>>, <<TRUE, TRUE>> }

Begin ==
    /\ phase \in {"idle", "ended", "aborted"}
    /\ \E a \in BeginAnswers :
         SetScan(BeginScan(catalog, a[1], a[2]))
    /\ slot' = EmptySlot
    /\ conv' = NoConvRow
    /\ fetched' = 0
    /\ lastCall' = "begin"
    /\ planOut' = NoPlan
    /\ explainOut' = NoExplain
    /\ UNCHANGED <<envVars, validated>>

(* mysql_close on a handle: closing a handle that is not open is a double free. *)
MysqlClose(st) == IF st \in {"init", "open"} THEN "closed" ELSE "double_close"

(* mysql_free_result on a result. *)
MysqlFreeResult(st) == IF st = "held" THEN "freed" ELSE "double_free"

(***************************************************************************)
(* mysqlIterateForeignScan, lines 631-662: execute the query if no result  *)
(* is held.  queryOk and storeOk are what mysql_query and                  *)
(* mysql_store_result answer.  On failure the connection is closed and the *)
(* ERROR raised; festate->conn keeps the pointer.                          *)
(***************************************************************************)
(* A variant that raises the error with the connection left open. *)
QueryFailureNoClose(s) ==
    [s EXCEPT !.raised = Err("ERRCODE_FDW_UNABLE_TO_CREATE_EXECUTION",
                             "failed to execute the MySQL query"),
              !.phase = "aborted"]

QueryFailure(s) ==
    [s EXCEPT !.connSt = MysqlClose(@),
              !.counts = Count(@, "close"),
              !.raised = Err("ERRCODE_FDW_UNABLE_TO_CREATE_EXECUTION",
                             "failed to execute the MySQL query"),
              !.phase = "aborted"]

(* A variant that executes the query on every call, a result held or not. *)
ExecuteQueryEveryCall(s, rem, queryOk, storeOk) ==
    LET s1 == [s EXCEPT !.counts = Count(@, "query")]
        s2 == [s1 EXCEPT !.counts = Count(@, "store")]
    IN  IF ~queryOk THEN QueryFailure(s1)
        ELSE IF ~storeOk
        THEN QueryFailure([s2 EXCEPT !.festate.result = NULLP])
        ELSE [s2 EXCEPT !.festate.result = RES,
                        !.festate.num_fields = rem.num_fields,
                        !.resSt = "held",
                        !.pos = 0]

ExecuteQuery(s, rem, queryOk, storeOk) ==
    IF s.festate.result # NULLP THEN s
    ELSE LET s1 == [s EXCEPT !.counts = Count(@, "query")]
             s2 == [s1 EXCEPT !.counts = Count(@, "store")]
         IN  IF ~queryOk THEN QueryFailure(s1)
             ELSE IF ~storeOk
             THEN QueryFailure([s2 EXCEPT !.festate.result = NULLP])
             ELSE [s2 EXCEPT !.festate.result = RES,
                             !.festate.num_fields = rem.num_fields,
                             !.resSt = "held",
                             !.pos = 0]

(***************************************************************************)
(* Lines 664-737: clear the slot, fetch the next row, convert it, store    *)
(* the virtual tuple.  An outcome is the scan afterwards, the slot as the  *)
(* host reads it and the record of the conversion.  Writing past the       *)
(* arrays is undefined: the backend may go on or end there.                *)
(***************************************************************************)
Crashed(s) == [s EXCEPT !.phase = "crashed"]

Conversions(d, nf, row) ==
    LET c == ConvertRow(d, nf, row, <<>>)
    IN  IF DescOverrun(c) THEN {ConvertRow(d, nf, row, garbage) : garbage \in Garbages}
        ELSE {c}

StoreRow(s, c0) ==
    LET c == [c0 EXCEPT !.rownum = s.pos + 1]
        s1 == [s EXCEPT !.pos = @ + 1]
    IN  IF c.status = "row"
        THEN { [scan |-> s1, slot |-> [empty |-> FALSE, cells |-> h],
                conv |-> c, returned |-> 1] : h \in HostRows(c) }
             \cup (IF HeapOverrun(c)
                   THEN { [scan |-> Crashed(s1), slot |-> EmptySlot,
                           conv |-> c, returned |-> 0] }
                   ELSE {})
        ELSE IF c.status = "error"
        THEN { [scan |-> [s1 EXCEPT !.raised = c.err, !.phase = "aborted"],
                slot |-> EmptySlot, conv |-> c, returned |-> 0] }
        ELSE { [scan |-> Crashed(s1), slot |-> EmptySlot, conv |-> c,
                returned |-> 0] }

(* A variant in which the cursor is back at the first row once the end of *)
(* the data was reported.                                                   *)
FetchAndConvertWrapping(s, d, rem) ==
    IF s.pos >= rem.nrows
    THEN { [scan |-> [s EXCEPT !.pos = 0], slot |-> EmptySlot, conv |-> NoConvRow,
            returned |-> 0] }
    ELSE UNION { StoreRow(s, c) :
                   c \in Conversions(d, s.festate.num_fields, RemoteRow(rem, s.pos + 1)) }

FetchAndConvert(s, d, rem) ==
    IF s.pos >= rem.nrows
    THEN { [scan |-> s, slot |-> EmptySlot, conv |-> NoConvRow, returned |-> 0] }
    ELSE UNION { StoreRow(s, c) :
                   c \in Conversions(d, s.festate.num_fields, RemoteRow(rem, s.pos + 1)) }

IterateOnce(s, d, rem, queryOk, storeOk, sl) ==
    LET s1 == ExecuteQuery(s, rem, queryOk, storeOk)
    IN  IF s1.raised # NoErr
        THEN { [scan |-> s1, slot |-> sl, conv |-> NoConvRow, returned |-> 0] }
        ELSE FetchAndConvert(s1, d, rem)

Answers(s) ==
    IF s.festate.result # NULLP THEN {<<TRUE, TRUE>>} ELSE BOOLEAN \X BOOLEAN

IterateScan(s, d, rem, sl) ==
    UNION { IterateOnce(s, d, rem, a[1], a[2], sl) : a \in Answers(s) }

Iterate ==
    /\ phase = "begun"
    /\ \E o \in IterateScan(Scan, desc, remote, slot) :
         /\ SetScan(o.scan)
         /\ slot' = o.slot
         /\ conv' = o.conv
         /\ fetched' = fetched + o.returned
    /\ lastCall' = "iterate"
    /\ planOut' = NoPlan
    /\ explainOut' = NoExplain
    /\ UNCHANGED <<envVars, validated>>

(***************************************************************************)
(* mysqlReScanForeignScan, lines 771-780.                                  *)
(***************************************************************************)
(* A variant that leaves the cursor where it is. *)
ReScanNoSeek(s) == s

(* A variant that seeks without testing the result pointer. *)
ReScanUnguarded(s) ==
    IF s.festate.result # NULLP
    THEN [s EXCEPT !.pos = 0]
    ELSE [s EXCEPT !.phase = "crashed"]

ReScan(s) ==
    IF s.festate.result # NULLP
    THEN [s EXCEPT !.pos = 0]
    ELSE s

Rescan ==
    /\ phase = "begun"
    /\ SetScan(ReScan(Scan))
    /\ fetched' = IF festate.result # NULLP THEN 0 ELSE fetched
    /\ lastCall' = "rescan"
    /\ planOut' = NoPlan
    /\ explainOut' = NoExplain
    /\ UNCHANGED <<envVars, validated, slot, conv>>

(***************************************************************************)
(* mysqlEndForeignScan, lines 743-765: three releases, each behind its own *)
(* null check, each clearing the pointer it released.                      *)
(***************************************************************************)
EndResult(s) ==
    IF s.festate.result # NULLP
    THEN [s EXCEPT !.resSt = MysqlFreeResult(@),
                   !.counts = CountFree(@, s.connSt),
                   !.festate.result = NULLP]
    ELSE s

(* A variant that closes the connection and keeps the pointer. *)
EndConnKeepsPointer(s) ==
    IF s.festate.conn # NULLP
    THEN [s EXCEPT !.connSt = MysqlClose(@),
                   !.counts = Count(@, "close")]
    ELSE s

EndConn(s) ==
    IF s.festate.conn # NULLP
    THEN [s EXCEPT !.connSt = MysqlClose(@),
                   !.counts = Count(@, "close"),
                   !.festate.conn = NULLP]
    ELSE s

EndQuery(s) ==
    IF s.festate.query # NullStr
    THEN [s EXCEPT !.bufSt = IF @ \in {"palloc", "option"} THEN "freed" ELSE "double_free",
                   !.counts = Count(@, "pfree"),
                   !.festate.query = NullStr]
    ELSE s

(* A variant that closes the connection before it frees the result. *)
EndScanCloseFirst(s) ==
    [EndQuery(EndResult(EndConn(s))) EXCEPT !.phase = "ended", !.counts = Count(@, "end")]

EndScan(s) ==
    [EndQuery(EndConn(EndResult(s))) EXCEPT !.phase = "ended", !.counts = Count(@, "end")]

End ==
    /\ phase \in {"begun", "ended"}
    /\ counts.end < MaxEnds
    /\ SetScan(EndScan(Scan))
    /\ lastCall' = "end"
    /\ planOut' = NoPlan
    /\ explainOut' = NoExplain
    /\ UNCHANGED <<envVars, validated, slot, conv, fetched>>

(***************************************************************************)
(* mysqlPlanForeignScan, lines 361-476.  initOk, connOk, queryOk, storeOk  *)
(* are what the client library answers; explain is the rows column         *)
(* (row[8]) of each row of the EXPLAIN output.                             *)
(***************************************************************************)
LocalStartupCost == 10

RemoteStartupCost == 25

(* A variant that knows the loopback address only. *)
StartupCostLoopbackOnly(address) ==
    IF address = Loopback THEN LocalStartupCost ELSE RemoteStartupCost

StartupCost(address) ==
    IF address = Loopback \/ address = Localhost
    THEN LocalStartupCost ELSE RemoteStartupCost

ExplainQueryLen(query) == Len(query) + 9

ExplainTableLen(table) == Len(table) + 23

ExplainQuery(o) ==
    IF o.query # NullStr
    THEN Snprintf(ExplainQueryLen(Deref(o.query)), ExplainPrefix \o Deref(o.query))
    ELSE Snprintf(ExplainTableLen(Deref(o.table)),
                  ExplainPrefix \o SelectPrefix \o Deref(o.table))

(* atof of the decimal integers EXPLAIN prints in its rows column. *)
atof(s) == AtoiFrom(s, 1, 0)

RECURSIVE SumRows(_, _, _)
SumRows(explain, i, rows) ==
    IF i > Len(explain) THEN rows
    ELSE SumRows(explain, i + 1, rows + atof(Deref(explain[i])))

EstimateCells == {NullStr, PtrTo(<<"3">>), PtrTo(<<"1","0">>)}

ExplainOutputs == SeqsUpTo(EstimateCells, MaxExplainRows)

PlanConnectFailure(p) ==
    [p EXCEPT !.status = "error", !.connSt = "init"]

PlanQueryFailure(p) ==
    [p EXCEPT !.status = "error", !.connSt = MysqlClose(@), !.counts = Count(@, "close")]

(* Lines 467-468: the result is freed, then the connection closed. *)
PlanFreeResult(p) ==
    [p EXCEPT !.resSt = MysqlFreeResult(@), !.counts = CountFree(@, p.connSt)]

PlanClose(p) ==
    [p EXCEPT !.connSt = MysqlClose(@), !.counts = Count(@, "close")]

PlanRelease(p) == PlanClose(PlanFreeResult(p))

PlanScan(cat, initOk, connOk, queryOk, storeOk, explain) ==
    LET r == mysqlGetOptions(cat)
        p0 == [NoPlan EXCEPT !.startup_cost = StartupCost(Deref(r.opts.address)),
                             !.counts = Count(@, "init")]
        p1 == [p0 EXCEPT !.counts = Count(@, "connect"), !.connArgs = ConnectArgs(r.opts)]
        p2 == [p1 EXCEPT !.connSt = "open", !.query = PtrTo(ExplainQuery(r.opts)),
                         !.counts = Count(@, "query")]
        p3 == [p2 EXCEPT !.counts = Count(@, "store")]
        rows == SumRows(explain, 1, 0)
    IN  IF r.err # NoErr THEN [plan |-> [NoPlan EXCEPT !.status = "error"], raised |-> r.err]
        ELSE IF ~initOk
        THEN [plan |-> [p0 EXCEPT !.status = "error"],
              raised |-> Err("ERRCODE_FDW_OUT_OF_MEMORY",
                             "failed to initialise the MySQL connection object")]
        ELSE IF ~connOk
        THEN [plan |-> PlanConnectFailure(p1),
              raised |-> Err("ERRCODE_FDW_UNABLE_TO_ESTABLISH_CONNECTION",
                             "failed to connect to MySQL")]
        ELSE IF ~queryOk
        THEN [plan |-> PlanQueryFailure(p2),
              raised |-> Err("ERRCODE_FDW_UNABLE_TO_CREATE_EXECUTION",
                             "failed to execute the MySQL query")]
        ELSE IF ~storeOk
        THEN [plan |-> PlanQueryFailure(p3),
              raised |-> Err("ERRCODE_FDW_UNABLE_TO_CREATE_EXECUTION",
                             "failed to execute the MySQL query")]
        ELSE IF \E i \in 1..Len(explain) : explain[i] = NullStr
        THEN [plan |-> [p3 EXCEPT !.status = "crash", !.resSt = "held", !.explain = explain],
              raised |-> NoErr]
        ELSE [plan |-> [PlanRelease([p3 EXCEPT !.resSt = "held", !.explain = explain])
                          EXCEPT !.status = "planned",
                                 !.rows = rows,
                                 !.total_cost = rows + p3.startup_cost],
              raised |-> NoErr]

(* The answers that differ: a call is not made after one that failed. *)
PlanAnswers ==
    { <<FALSE, TRUE, TRUE, TRUE, <<>>>>, <<TRUE, FALSE, TRUE, TRUE, <<>>>>,
      <<TRUE, TRUE, FALSE, TRUE, <<>>>>, <<TRUE, TRUE, TRUE, FALSE, <<>>>> }
    \cup { <<TRUE, TRUE, TRUE, TRUE, e>> : e \in ExplainOutputs }

Plan ==
    /\ phase \in {"idle", "ended", "aborted"}
    /\ \E a \in PlanAnswers :
         LET p == PlanScan(catalog, a[1], a[2], a[3], a[4], a[5])
         IN  /\ planOut' = p.plan
             /\ SetScan([NoScan EXCEPT
                           !.raised = p.raised,
                           !.phase = IF p.plan.status = "crash" THEN "crashed"
                                     ELSE IF p.raised # NoErr THEN "aborted"
                                     ELSE "idle"])
    /\ slot' = EmptySlot
    /\ conv' = NoConvRow
    /\ fetched' = 0
    /\ explainOut' = NoExplain
    /\ lastCall' = "plan"
    /\ UNCHANGED <<envVars, validated>>

(***************************************************************************)
(* mysqlExplainForeignScan, lines 482-507.  costs is es->costs.            *)
(***************************************************************************)
ExplainScan(cat, fs, costs) ==
    LET r == mysqlGetOptions(cat)
        local == StartupCost(Deref(r.opts.address)) = LocalStartupCost
    IN  IF r.err # NoErr THEN [out |-> NoExplain, raised |-> r.err]
        ELSE IF costs
        THEN [out |-> [emitted |-> TRUE,
                       label |-> IF local THEN "Local server startup cost"
                                 ELSE "Remote server startup cost",
                       cost |-> IF local THEN LocalStartupCost ELSE RemoteStartupCost,
                       query |-> fs.query],
              raised |-> NoErr]
        ELSE [out |-> NoExplain, raised |-> NoErr]

Explain ==
    /\ phase = "begun"
    /\ \E costs \in BOOLEAN :
         LET e == ExplainScan(catalog, festate, costs)
         IN  /\ explainOut' = e.out
             /\ raised' = e.raised
             /\ phase' = IF e.raised # NoErr THEN "aborted" ELSE phase
    /\ planOut' = NoPlan
    /\ lastCall' = "explain"
    /\ UNCHANGED <<envVars, validated, festate, connSt, resSt, bufSt, pos, counts, slot, conv,
                   fetched, connArgs>>

(***************************************************************************)
(* A call of mysql_fdw_validator: the options of one object as they are    *)
(* handed over (an option may be there more than once, an option no object *)
(* takes may be among them) and the catalog the object is of.  The call is *)
(* pending until Validate has run the validator on it.                     *)
(***************************************************************************)
ValidatorDefs ==
    { DefElem("address", <<"d","b">>),
      DefElem("port", <<"0">>), DefElem("port", <<"7">>), DefElem("port", <<"x">>),
      DefElem("username", <<"u">>), DefElem("password", <<"p">>),
      DefElem("database", <<"d">>), DefElem("query", <<"Q">>),
      DefElem("table", <<"t">>), DefElem("host", <<"h">>) }

Contexts ==
    { "ForeignDataWrapperRelationId", "ForeignServerRelationId",
      "UserMappingRelationId", "ForeignTableRelationId" }

Pending == Err("pending", "")

ValidatorCalls ==
    [options : SeqsUpTo(ValidatorDefs, MaxValidatorOpts), context : Contexts, err : {Pending}]

Validate ==
    /\ validated.err = Pending
    /\ validated' = [validated EXCEPT
                       !.err = mysql_fdw_validator(validated.options, validated.context)]
    /\ UNCHANGED <<envVars, phase, festate, connSt, resSt, bufSt, pos, counts, slot, conv,
                   fetched, lastCall, raised, planOut, explainOut, connArgs>>

(***************************************************************************)
(* The specifications.  Spec: one scan after another over every descriptor *)
(* and result set, the options being a table or a query.  SpecOpt: plan,   *)
(* explain, begin and end over every catalog.  SpecAll: the six scan       *)
(* callbacks, over a few catalogs, descriptors and result sets.  SpecVal:  *)
(* the validator over every call of it.                                    *)
(***************************************************************************)
NoValidation == [options |-> <<>>, context |-> "none", err |-> NoErr]

InitState ==
    /\ phase = "idle"
    /\ festate = NoState
    /\ connSt = "none"
    /\ resSt = "none"
    /\ bufSt = "none"
    /\ pos = 0
    /\ counts = NoCounts
    /\ slot = EmptySlot
    /\ conv = NoConvRow
    /\ fetched = 0
    /\ lastCall = "none"
    /\ raised = NoErr
    /\ planOut = NoPlan
    /\ explainOut = NoExplain
    /\ connArgs = NoConnArgs

Init ==
    /\ catalog \in ScanCatalogs
    /\ desc \in Descs
    /\ remote \in ResultSets
    /\ validated = NoValidation
    /\ InitState

Next == Begin \/ Iterate \/ Rescan \/ End

Spec == Init /\ [][Next]_vars

OneColumn == << [attisdropped |-> FALSE, typ |-> "text"] >>

OneRow == [num_fields |-> 1, nrows |-> 1, first |-> 3, stride |-> 0]

InitOpt ==
    /\ catalog \in Catalogs
    /\ desc = OneColumn
    /\ remote = OneRow
    /\ validated = NoValidation
    /\ InitState

NextOpt == Plan \/ Explain \/ Begin \/ End

SpecOpt == InitOpt /\ [][NextOpt]_vars

NoOptionsCatalog == [table |-> <<>>, server |-> <<>>, mapping |-> <<>>]

InitAll ==
    /\ catalog \in ScanCatalogs \cup {NoOptionsCatalog}
    /\ desc \in {d \in Descs : Len(d) = 1}
    /\ remote \in {r \in ResultSets : r.num_fields = 1}
    /\ validated = NoValidation
    /\ InitState

NextAll == Plan \/ Explain \/ Begin \/ Iterate \/ Rescan \/ End

SpecAll == InitAll /\ [][NextAll]_vars

InitLayered ==
    /\ catalog \in LayeredCatalogs
    /\ desc = OneColumn
    /\ remote = OneRow
    /\ validated = NoValidation
    /\ InitState

SpecLayered == InitLayered /\ [][NextOpt]_vars

InitVal ==
    /\ catalog = NoOptionsCatalog
    /\ desc = OneColumn
    /\ remote = OneRow
    /\ validated \in ValidatorCalls
    /\ InitState

NextVal == Validate

SpecVal == InitVal /\ [][NextVal]_vars

(***************************************************************************)
(* The properties.                                                         *)
(*                                                                         *)
(* LivePos(d, x): the column (from 0) that takes field x (from 0) of a     *)
(* remote row: the (x+1)-th column of d that is not dropped; -1 if d has   *)
(* no such column.                                                         *)
(***************************************************************************)
LiveCols(d) == {k \in 1..Len(d) : ~d[k].attisdropped}

DroppedCols(d) == {k \in 1..Len(d) : d[k].attisdropped}

LivePos(d, x) ==
    LET at == {k \in LiveCols(d) : Cardinality({j \in LiveCols(d) : j < k}) = x}
    IN  IF at = {} THEN -1 ELSE (CHOOSE k \in at : TRUE) - 1

FieldWrites(c, x) == {w \in c.writes : w.x = x}

(* The last call was an iterate that fetched a remote row. *)
RowFetched == lastCall = "iterate" /\ conv.status # NoConv

(* The last call was an iterate that returned a row. *)
RowReturned == lastCall = "iterate" /\ ~slot.empty

(* Field x of row, which is not NULL and has bytes, goes to a column of the *)
(* string category and its bytes are not valid in the encoding.            *)
BadEncoding(d, row, x) ==
    LET f == row[x + 1]
        y == LivePos(d, x)
    IN  /\ f # NullStr
        /\ Len(Deref(f)) > 0
        /\ y >= 0
        /\ TypeCategory(d[y + 1].typ) = TYPCATEGORY_STRING
        /\ ~pg_verifymbstr(Deref(f), Len(Deref(f)))

(* The options of the three objects, by name. *)
OptionNames(cat) ==
    {ConcatOptions(cat)[i].defname : i \in 1..Len(ConcatOptions(cat))}

BothSet(cat) == {"query", "table"} \subseteq OptionNames(cat)

NeitherSet(cat) == OptionNames(cat) \cap {"query", "table"} = {}

QueryOption(cat) ==
    LET i == CHOOSE j \in 1..Len(ConcatOptions(cat)) : ConcatOptions(cat)[j].defname = "query"
    IN  ConcatOptions(cat)[i].arg

(* The last call was one that resolves the options. *)
ResolvingCall == lastCall \in {"plan", "begin", "explain"}

(***************************************************************************)
(* C1: when the host descriptor has a dropped column and the remote result *)
(* has one field per column that is not dropped, every row iterate returns *)
(* has arrays of as many slots as the descriptor has columns, and the slot *)
(* of every dropped column is null in it.                                  *)
(*                                                                         *)
(* The code allocates the arrays with num_fields slots (lines 680-681) and *)
(* never writes the slot of a dropped column that follows the last field.  *)
(***************************************************************************)
C1_DroppedColumnSlots ==
    (/\ RowReturned
     /\ DroppedCols(desc) # {}
     /\ remote.num_fields = Cardinality(LiveCols(desc)))
    => /\ conv.alloc = Len(desc)
       /\ Len(slot.cells) = Len(desc)
       /\ \A k \in DroppedCols(desc) : slot.cells[k].isnull

(***************************************************************************)
(* C2: a rescan on a scan that holds a result moves the cursor to the      *)
(* first row and does nothing else: no query, no connect, no close.  The   *)
(* k-th row an iterate fetches after it, as after the execution, is the    *)
(* k-th row of the result, and an iterate reports the end of the data only *)
(* after all its rows; an iterate on a held result does not execute or     *)
(* connect again.  fetched counts the rows returned since the cursor was   *)
(* last at the first row.                                                  *)
(***************************************************************************)
C2_RescanRepositions ==
    [][ /\ (lastCall' = "rescan" /\ festate.result # NULLP)
            => /\ pos' = 0
               /\ counts' = counts
               /\ festate' = festate
               /\ connSt' = connSt
               /\ resSt' = resSt
               /\ raised' = NoErr
        /\ (lastCall' = "iterate" /\ festate.result # NULLP)
            => /\ counts'.query = counts.query
               /\ counts'.store = counts.store
               /\ counts'.init = counts.init
               /\ counts'.connect = counts.connect
        /\ (lastCall' = "iterate" /\ conv'.status # NoConv)
            => /\ conv'.rownum = fetched + 1
               /\ conv'.row = RemoteRow(remote, fetched + 1)
        /\ (lastCall' = "iterate" /\ raised' = NoErr /\ conv'.status = NoConv)
            => /\ slot'.empty
               /\ fetched = remote.nrows
      ]_vars

(* A rescan after every row of a result of two or more rows was returned. *)
C2_Witness ==
    /\ lastCall = "rescan"
    /\ festate.result # NULLP
    /\ remote.nrows >= 2
    /\ conv.rownum = remote.nrows
    /\ ~slot.empty
    /\ pos = 0
    /\ fetched = 0

(***************************************************************************)
(* C3: a rescan on a scan that holds no result (before the first iterate)  *)
(* changes nothing and raises nothing; the iterate that follows executes   *)
(* the query once and, when it returns, has returned the first row of the  *)
(* result, or the end of the data when the result has no rows.             *)
(***************************************************************************)
C3_RescanBeforeIterate ==
    [][ /\ (lastCall' = "rescan" /\ festate.result = NULLP)
            => /\ UNCHANGED <<festate, connSt, resSt, bufSt, pos, counts, phase, slot>>
               /\ raised' = NoErr
        /\ (/\ lastCall = "rescan" /\ festate.result = NULLP
            /\ lastCall' = "iterate" /\ raised' = NoErr /\ phase' = "begun")
            => /\ counts'.query = counts.query + 1
               /\ counts'.query = 1
               /\ festate'.result = RES
               /\ IF remote.nrows = 0 THEN slot'.empty
                  ELSE /\ ~slot'.empty
                       /\ conv'.rownum = 1
                       /\ conv'.row = RemoteRow(remote, 1)
      ]_vars

(* A rescan on a begun scan that has executed nothing. *)
C3_Witness ==
    /\ lastCall = "rescan"
    /\ phase = "begun"
    /\ festate.result = NULLP
    /\ counts.query = 0
    /\ pos = 0

(***************************************************************************)
(* C4: after begin and any iterate and rescan calls that raised nothing,   *)
(* end frees the result, closes the connection and frees the query buffer  *)
(* at most once each however often it is called; it leaves the three       *)
(* pointers null, and a second end raises nothing and changes nothing.     *)
(***************************************************************************)
C4_EndTwice ==
    [][ (lastCall' = "end")
        => /\ counts'.free_result <= 1
           /\ counts'.close <= 1
           /\ counts'.pfree <= 1
           /\ connSt' \in {"closed"}
           /\ resSt' \in {"none", "freed"}
           /\ bufSt' \in {"freed"}
           /\ festate'.conn = NULLP
           /\ festate'.result = NULLP
           /\ festate'.query = NullStr
           /\ raised' = NoErr
           /\ (phase = "ended"
               => /\ UNCHANGED <<festate, connSt, resSt, bufSt, pos, slot>>
                  /\ [counts' EXCEPT !.end = 0] = [counts EXCEPT !.end = 0])
      ]_vars

(* A second end on a scan that held a result. *)
C4_Witness ==
    /\ lastCall = "end"
    /\ counts.end = 2
    /\ counts.free_result = 1
    /\ counts.close = 1
    /\ counts.pfree = 1

(***************************************************************************)
(* C5: in plan and in begin, when mysql_real_connect fails on the handle   *)
(* mysql_init returned, the handle is closed before the connection error   *)
(* is raised.                                                              *)
(*                                                                         *)
(* The code raises the error with the handle as mysql_init left it (lines  *)
(* 407-413 and 543-549).                                                   *)
(***************************************************************************)
C5_ConnectFailureCloses ==
    raised.code = "ERRCODE_FDW_UNABLE_TO_ESTABLISH_CONNECTION"
    => /\ lastCall = "begin" => (connSt = "closed" /\ counts.close = 1)
       /\ lastCall = "plan" => (planOut.connSt = "closed" /\ planOut.counts.close = 1)

(***************************************************************************)
(* C6: when mysql_query or mysql_store_result fails, in the first iterate  *)
(* of a scan or in plan, the connection has been closed, once, when the    *)
(* execution error is raised, and no result is held.                       *)
(***************************************************************************)
C6_QueryFailureCloses ==
    raised.code = "ERRCODE_FDW_UNABLE_TO_CREATE_EXECUTION"
    => /\ lastCall \in {"iterate", "plan"}
       /\ lastCall = "iterate"
           => /\ connSt = "closed"
              /\ counts.close = 1
              /\ counts.query = 1
              /\ festate.result = NULLP
              /\ resSt = "none"
       /\ lastCall = "plan"
           => /\ planOut.connSt = "closed"
              /\ planOut.counts.close = 1
              /\ planOut.resSt = "none"

(* The first iterate of a scan, mysql_store_result having failed. *)
C6_Witness ==
    /\ lastCall = "iterate"
    /\ raised.code = "ERRCODE_FDW_UNABLE_TO_CREATE_EXECUTION"
    /\ counts.store = 1
    /\ connSt = "closed"

(***************************************************************************)
(* C7: a field that is not NULL, has bytes, goes to a column of the string *)
(* category and fails the encoding check never makes iterate raise: its    *)
(* cell is written null, one warning is reported for it, the other fields  *)
(* of the row are converted as their content and column say, the row is    *)
(* returned with the scan still open, and the rows iterate fetches are the *)
(* rows of the result in order, the ones after such a row included.        *)
(* What the host reads is stated for the cells inside the allocated        *)
(* arrays.                                                                 *)
(***************************************************************************)
C7_EncodingFailureIsNull ==
    RowFetched =>
      LET fields == 0..(Len(conv.row) - 1)
          bad == {x \in fields : BadEncoding(desc, conv.row, x)}
      IN  /\ \A x \in bad :
                /\ conv.status \in {"error", "crash"} => conv.x # x
                /\ x < conv.x
                    => /\ FieldWrites(conv, x)
                            = {[y |-> LivePos(desc, x), x |-> x, cell |-> NullCell]}
                       /\ \E i \in 1..Len(conv.warnings) :
                              /\ conv.warnings[i].arg = Deref(conv.row[x + 1])
                              /\ conv.warnings[i].code = "ERRCODE_CHARACTER_NOT_IN_REPERTOIRE"
                       /\ (RowReturned /\ LivePos(desc, x) < conv.alloc)
                            => slot.cells[LivePos(desc, x) + 1] = NullCell
          /\ Len(conv.warnings) = Cardinality({x \in bad : x < conv.x})
          /\ conv.status = "row"
              => \A x \in fields \ bad :
                    LET f == conv.row[x + 1]
                        y == LivePos(desc, x)
                    IN  (y >= 0 /\ f # NullStr)
                        => FieldWrites(conv, x)
                             = {[y |-> y, x |-> x,
                                 cell |-> ValCell(InputFunctionCall(desc[y + 1].typ,
                                                                    Deref(f)).value)]}
          /\ RowReturned => (phase = "begun" /\ raised = NoErr /\ conv.status = "row")
          /\ conv.row = RemoteRow(remote, conv.rownum)
          /\ pos = conv.rownum
          /\ RowReturned => conv.rownum = fetched

(* The second row of a result is returned, with a field that failed the    *)
(* check in it, after a first row that had such a field too.               *)
C7_Witness ==
    /\ RowReturned
    /\ conv.rownum = 2
    /\ \E x \in 0..(remote.num_fields - 1) : BadEncoding(desc, RemoteRow(remote, 1), x)
    /\ \E x \in 0..(Len(conv.row) - 1) :
          /\ BadEncoding(desc, conv.row, x)
          /\ LivePos(desc, x) < conv.alloc
          /\ slot.cells[LivePos(desc, x) + 1] = NullCell
    /\ Len(conv.warnings) = 1

(***************************************************************************)
(* C8: a field that is present and has no bytes is never written null,     *)
(* whatever the type of its column: its cell is the value the input        *)
(* function of the column's type gives for the empty string, and when that *)
(* function refuses the empty string iterate raises its error; no warning  *)
(* is reported for it.  A field that is NULL is written null.  What the    *)
(* host reads is stated for the cells inside the allocated arrays.         *)
(***************************************************************************)
C8_EmptyFieldNotNull ==
    RowFetched =>
      \A x \in 0..(Len(conv.row) - 1) :
         LET f == conv.row[x + 1]
             y == LivePos(desc, x)
             r == InputFunctionCall(desc[y + 1].typ, <<>>)
         IN  /\ (f = PtrTo(<<>>) /\ y >= 0 /\ x < conv.x)
                  => /\ r.err = NoErr
                     /\ FieldWrites(conv, x) = {[y |-> y, x |-> x, cell |-> ValCell(r.value)]}
                     /\ (RowReturned /\ y < conv.alloc)
                          => /\ ~slot.cells[y + 1].isnull
                             /\ slot.cells[y + 1].value = [typ |-> desc[y + 1].typ, str |-> <<>>]
             /\ (f = PtrTo(<<>>) /\ y >= 0 /\ x = conv.x)
                  => /\ conv.status = "error"
                     /\ r.err # NoErr
                     /\ conv.err = r.err
                     /\ raised = r.err
             /\ (f = NullStr /\ x < conv.x)
                  => /\ FieldWrites(conv, x) # {}
                     /\ \A w \in FieldWrites(conv, x) : w.cell = NullCell
             /\ \A i \in 1..Len(conv.warnings) : conv.warnings[i].arg # <<>>

(* A returned row with a field without bytes in a text column and one in a *)
(* varbit column.                                                          *)
C8_Witness ==
    /\ RowReturned
    /\ \A c \in {TYPCATEGORY_STRING, TYPCATEGORY_BITSTRING} :
          \E x \in 0..(Len(conv.row) - 1) :
             /\ conv.row[x + 1] = PtrTo(<<>>)
             /\ LivePos(desc, x) >= 0
             /\ LivePos(desc, x) < conv.alloc
             /\ TypeCategory(desc[LivePos(desc, x) + 1].typ) = c
             /\ ~slot.cells[LivePos(desc, x) + 1].isnull

(***************************************************************************)
(* C9: as stated, when the options hold both a query and a table, plan,    *)
(* begin and explain end with an error of mysqlGetOptions, nothing having  *)
(* been connected.                                                         *)
(***************************************************************************)
C9_BothSetFails ==
    (BothSet(catalog) /\ ResolvingCall)
    => /\ raised # NoErr
       /\ counts.init = 0
       /\ planOut.counts.init = 0

(***************************************************************************)
(* C9, as the code has it: when the options hold both a query and a table, *)
(* mysqlGetOptions raises nothing and returns both; begin goes on to       *)
(* connect and the scan runs the query option as it is, plan goes on to    *)
(* connect and probes with EXPLAIN and the query option, explain prints    *)
(* the query option.  The table is not used.                               *)
(***************************************************************************)
C9_BothSetUsesQuery ==
    (BothSet(catalog) /\ ResolvingCall)
    => /\ raised.code # "ERRCODE_SYNTAX_ERROR"
       /\ mysqlGetOptions(catalog).err = NoErr
       /\ mysqlGetOptions(catalog).opts.query = PtrTo(QueryOption(catalog))
       /\ mysqlGetOptions(catalog).opts.table # NullStr
       /\ lastCall = "begin"
           => /\ counts.init = 1
              /\ phase = "begun" => festate.query = PtrTo(QueryOption(catalog))
       /\ lastCall = "plan"
           => /\ planOut.counts.init = 1
              /\ planOut.status = "planned"
                  => planOut.query = PtrTo(ExplainPrefix \o QueryOption(catalog))
       /\ lastCall = "explain"
           => /\ raised = NoErr
              /\ explainOut.emitted => explainOut.query = PtrTo(QueryOption(catalog))

(* A scan begun on options that hold a query and a table. *)
C9_Witness ==
    /\ BothSet(catalog)
    /\ lastCall = "begin"
    /\ phase = "begun"
    /\ festate.query = PtrTo(QueryOption(catalog))

(***************************************************************************)
(* C10: when no option of the table, the server or the user mapping is a   *)
(* query or a table, plan, begin and explain end with the error "either a  *)
(* table or a query must be specified", no connection handle having been   *)
(* initialised and no connection attempted.                                *)
(***************************************************************************)
C10_NeitherSetFails ==
    (NeitherSet(catalog) /\ ResolvingCall)
    => /\ raised = Err("ERRCODE_SYNTAX_ERROR", "either a table or a query must be specified")
       /\ counts.init = 0
       /\ counts.connect = 0
       /\ connSt = "none"
       /\ planOut.counts.init = 0
       /\ planOut.counts.connect = 0
       /\ planOut.connSt = "none"
       /\ phase # "begun"

(* A begin on options that hold a server address and a user name only. *)
C10_Witness ==
    /\ NeitherSet(catalog)
    /\ Len(ConcatOptions(catalog)) >= 2
    /\ lastCall = "begin"
    /\ raised.code = "ERRCODE_SYNTAX_ERROR"

(***************************************************************************)
(* The value of the last option called name in the concatenated options,   *)
(* and what the last begin or plan call that got as far as                 *)
(* mysql_real_connect passed to it.                                        *)
(***************************************************************************)
LastOption(cat, name) ==
    LET at == {j \in 1..Len(ConcatOptions(cat)) : ConcatOptions(cat)[j].defname = name}
        last == CHOOSE j \in at : \A k \in at : k <= j
    IN  ConcatOptions(cat)[last].arg

ConnectAttempted ==
    \/ lastCall = "begin" /\ counts.connect = 1
    \/ lastCall = "plan" /\ planOut.counts.connect = 1

PassedArgs == IF lastCall = "begin" THEN connArgs ELSE planOut.connArgs

(***************************************************************************)
(* C11: when the options resolve, the address passed on is 127.0.0.1 if no *)
(* address option is there and the port is 3306 if no port option is       *)
(* there; an address or a port that is there is passed on as it is, the    *)
(* port as the number it spells.                                           *)
(*                                                                         *)
(* The code takes a port of 0 after the scan for no port (line 346): a     *)
(* port option that atoi turns into 0 is replaced by 3306.                 *)
(***************************************************************************)
C11_DefaultsOnlyWhenUnset ==
    ConnectAttempted
    => /\ PassedArgs.address
            = IF "address" \in OptionNames(catalog)
              THEN PtrTo(LastOption(catalog, "address"))
              ELSE PtrTo(Loopback)
       /\ PassedArgs.port
            = IF "port" \in OptionNames(catalog)
              THEN atoi(LastOption(catalog, "port"))
              ELSE DefaultPort

(***************************************************************************)
(* The validator has run on the call; the names of the options handed      *)
(* over; every one of them is an option of the object; one name is there   *)
(* twice.                                                                  *)
(***************************************************************************)
ValidatorRan == validated.context # "none" /\ validated.err # Pending

HandedNames == {validated.options[i].defname : i \in 1..Len(validated.options)}

AllOfTheObject ==
    \A i \in 1..Len(validated.options) :
       \E opt \in valid_options :
          /\ opt.optname = validated.options[i].defname
          /\ opt.optcontext = validated.context

SomeNameTwice ==
    \E i, j \in 1..Len(validated.options) :
       i < j /\ validated.options[i].defname = validated.options[j].defname

(***************************************************************************)
(* C12: the validator raises an error on every list that holds a query     *)
(* option and a table option, whichever comes first; when every option of  *)
(* the list is one of the object, the error is a syntax error.             *)
(***************************************************************************)
C12_QueryWithTableRefused ==
    (ValidatorRan /\ {"query", "table"} \subseteq HandedNames)
    => /\ validated.err # NoErr
       /\ AllOfTheObject => validated.err.code = "ERRCODE_SYNTAX_ERROR"

(* The options of a foreign table, a table and then a query. *)
C12_Witness ==
    /\ ValidatorRan
    /\ validated.context = "ForeignTableRelationId"
    /\ validated.options = <<DefElem("table", <<"t">>), DefElem("query", <<"Q">>)>>
    /\ validated.err
         = Err("ERRCODE_SYNTAX_ERROR", "conflicting options: query cannot be used with table")

(***************************************************************************)
(* C13: the validator raises the syntax error for conflicting or redundant *)
(* options on every list of options of the object in which one of the      *)
(* seven names is there more than once, whatever the values.               *)
(*                                                                         *)
(* The code tells a port already seen by svr_port being non-zero (line     *)
(* 200): after a port that atoi turns into 0, a second port is taken.      *)
(***************************************************************************)
C13_RepeatedOptionRefused ==
    (ValidatorRan /\ AllOfTheObject /\ SomeNameTwice)
    => validated.err.code = "ERRCODE_SYNTAX_ERROR"

(* The query a scan of the catalog runs: the query option, or the SELECT  *)
(* on the table option.                                                   *)
EffectiveQuery(cat) ==
    IF "query" \in OptionNames(cat) THEN LastOption(cat, "query")
    ELSE <<"S","E","L","E","C","T"," ","*"," ","F","R","O","M"," ">>
         \o LastOption(cat, "table")

(***************************************************************************)
(* C14: the query of a begun scan is the query option as it is, or, with   *)
(* no query option, "SELECT * FROM " followed by the whole table option;   *)
(* the query plan sends is "EXPLAIN " followed by that same string.        *)
(* Nothing is cut off either of them.                                      *)
(***************************************************************************)
C14_QueriesNotTruncated ==
    /\ (lastCall = "begin" /\ phase = "begun")
        => festate.query = PtrTo(EffectiveQuery(catalog))
    /\ (lastCall = "plan" /\ planOut.counts.query = 1)
        => planOut.query
             = PtrTo(<<"E","X","P","L","A","I","N"," ">> \o EffectiveQuery(catalog))

(* A scan begun on the table "or", with no query option. *)
C14_Witness ==
    /\ lastCall = "begin"
    /\ phase = "begun"
    /\ "query" \notin OptionNames(catalog)
    /\ LastOption(catalog, "table") = <<"o","r">>
    /\ Len(Deref(festate.query)) = 16
    /\ bufSt = "palloc"

(* The sum of the rows column of an EXPLAIN output and the address a      *)
(* catalog resolves to.                                                   *)
EstimateValue(cell) == IF cell = PtrTo(<<"3">>) THEN 3 ELSE 10

RECURSIVE EstimateSum(_, _)
EstimateSum(explain, n) ==
    IF n = 0 THEN 0 ELSE EstimateSum(explain, n - 1) + EstimateValue(explain[n])

ResolvedAddress(cat) ==
    IF "address" \in OptionNames(cat) THEN LastOption(cat, "address")
    ELSE <<"1","2","7",".","0",".","0",".","1">>

IsLocalAddress(address) ==
    \/ address = <<"1","2","7",".","0",".","0",".","1">>
    \/ address = <<"l","o","c","a","l","h","o","s","t">>

C16_HandleNullOnceClosed ==
    connSt \in {"closed", "double_close"} => festate.conn = NULLP

(***************************************************************************)
(* C17: a begin leaves the result pointer null, the field count 0 and no   *)
(* query executed.  The iterate that finds no result executes the query,   *)
(* once, and when the result is stored assigns the field count of the      *)
(* result; every iterate and rescan that finds a result executes nothing   *)
(* and leaves the result pointer and the field count as they are.  So a    *)
(* scan under way has executed the query once if it holds a result and not *)
(* at all if it holds none.                                                *)
(***************************************************************************)
C17_CursorLazyOnce ==
    [][ /\ (lastCall' = "begin")
            => /\ festate'.result = NULLP
               /\ festate'.num_fields = 0
               /\ counts'.query = 0
               /\ counts'.store = 0
        /\ (lastCall' = "iterate" /\ festate.result = NULLP)
            => /\ counts.query = 0
               /\ counts'.query = 1
               /\ festate'.result # NULLP
                    => /\ counts'.store = 1
                       /\ festate'.num_fields = remote.num_fields
        /\ (lastCall' \in {"iterate", "rescan"} /\ festate.result # NULLP)
            => /\ counts'.query = 1
               /\ counts'.store = 1
               /\ festate'.result = festate.result
               /\ festate'.num_fields = festate.num_fields
        /\ (lastCall' = "rescan" /\ festate.result = NULLP)
            => /\ counts'.query = 0
               /\ festate'.result = NULLP
               /\ festate'.num_fields = 0
        /\ (lastCall' = "end")
            => /\ counts'.query = counts.query
               /\ festate'.num_fields = festate.num_fields
      ]_vars

(* A rescan after the last of several rows, the query executed once. *)
C17_Witness ==
    /\ lastCall = "rescan"
    /\ phase = "begun"
    /\ counts.query = 1
    /\ festate.result # NULLP
    /\ conv.rownum = MaxRows
    /\ festate.num_fields = MaxFields

(***************************************************************************)
(* C18: every mysql_free_result call, of a scan and of a plan call, is     *)
(* made while the connection that produced the result is open, and a       *)
(* result that is held has its connection open.  An end that found a       *)
(* result has freed it and then closed the connection, and a plan call     *)
(* that returned a plan has freed the result of its EXPLAIN and then       *)
(* closed its connection.  freed_open counts the mysql_free_result calls   *)
(* made with the connection open.                                          *)
(***************************************************************************)
C18_ResultFreedBeforeClose ==
    /\ counts.free_result = counts.freed_open
    /\ planOut.counts.free_result = planOut.counts.freed_open
    /\ resSt = "held" => connSt = "open"
    /\ planOut.resSt = "held" => planOut.connSt = "open"
    /\ resSt # "double_free"
    /\ (lastCall = "end" /\ counts.free_result > 0)
        => /\ counts.free_result = 1
           /\ counts.close = 1
           /\ resSt = "freed"
           /\ connSt = "closed"
    /\ planOut.status = "planned"
        => /\ planOut.counts.free_result = 1
           /\ planOut.counts.close = 1
           /\ planOut.resSt = "freed"
           /\ planOut.connSt = "closed"

(* An end that freed the result of a scan and closed its connection. *)
C18_Witness ==
    /\ lastCall = "end"
    /\ counts.free_result = 1
    /\ counts.freed_open = 1
    /\ counts.close = 1
    /\ resSt = "freed"
    /\ connSt = "closed"
    /\ fetched > 0

(* The value of the last option of a name in the concatenated list, as a *)
(* pointer (null with no occurrence) and, for the port, as a number.      *)
LastValue(cat, name) ==
    IF name \in OptionNames(cat) THEN PtrTo(LastOption(cat, name)) ELSE NullStr

LastPort(cat) ==
    IF "port" \in OptionNames(cat) THEN atoi(LastOption(cat, "port")) ELSE 0

(***************************************************************************)
(* C19: the options are taken from the table's list, then the server's,    *)
(* then the mapping's, and of the options of one name the last in that     *)
(* order gives the value: the strings handed to mysql_real_connect and the *)
(* table of the scan query are those of the last occurrence, and the port  *)
(* is the number the last port option spells (3306 where that number is 0, *)
(* by the default applied after the scan of the list).  A name with no     *)
(* occurrence leaves its value unset (for the address, 127.0.0.1).         *)
(***************************************************************************)
C19_LastOccurrenceWins ==
    /\ ConnectAttempted
        => /\ PassedArgs.address
                = IF LastValue(catalog, "address") = NullStr THEN PtrTo(Loopback)
                  ELSE LastValue(catalog, "address")
           /\ PassedArgs.port
                = IF LastPort(catalog) = 0 THEN DefaultPort ELSE LastPort(catalog)
           /\ PassedArgs.username = LastValue(catalog, "username")
           /\ PassedArgs.password = LastValue(catalog, "password")
           /\ PassedArgs.database = LastValue(catalog, "database")
    /\ (lastCall = "begin" /\ phase = "begun" /\ LastValue(catalog, "query") = NullStr)
        => festate.query = PtrTo(SelectPrefix \o Deref(LastValue(catalog, "table")))
    /\ (lastCall = "begin" /\ phase = "begun" /\ LastValue(catalog, "query") # NullStr)
        => festate.query = LastValue(catalog, "query")

(* A scan begun with a table option on the table and another on the server, *)
(* and a port on the mapping.                                               *)
C19_Witness ==
    /\ lastCall = "begin"
    /\ phase = "begun"
    /\ catalog.table = <<DefElem("table", <<"u">>)>>
    /\ catalog.server = <<DefElem("table", <<"t">>)>>
    /\ catalog.mapping = <<DefElem("port", <<"7">>)>>
    /\ festate.query = PtrTo(SelectPrefix \o <<"t">>)
    /\ connArgs.port = 7

(***************************************************************************)
(* C20: of the iterate calls that return, the k-th since the query was     *)
(* executed or the cursor last put back, for k up to the number of rows of *)
(* the result, returns a filled slot made from the k-th row of the result; *)
(* every call after those returns the cleared slot, raises no error,       *)
(* leaves the cursor where it is and executes nothing.  A rescan on a held *)
(* result starts the count again.  An iterate that raises an error or ends *)
(* the backend returns no slot.                                            *)
(***************************************************************************)
C20_RowsThenEmptySlot ==
    [][ /\ (lastCall' = "iterate" /\ phase' = "begun" /\ fetched < remote.nrows)
            => /\ ~slot'.empty
               /\ fetched' = fetched + 1
               /\ conv'.rownum = fetched'
               /\ conv'.row = RemoteRow(remote, fetched')
               /\ pos' = fetched'
               /\ raised' = NoErr
        /\ (lastCall' = "iterate" /\ phase' = "begun" /\ fetched >= remote.nrows)
            => /\ slot' = EmptySlot
               /\ raised' = NoErr
               /\ fetched' = fetched
               /\ fetched = remote.nrows
               /\ pos' = remote.nrows
               /\ counts'.query = 1
               /\ counts'.store = 1
               /\ festate.result # NULLP => counts' = counts /\ festate' = festate
        /\ (lastCall' = "rescan" /\ festate.result # NULLP)
            => fetched' = 0
      ]_vars

(* The call after the last row of a result of MaxRows rows. *)
C20_Witness ==
    /\ lastCall = "iterate"
    /\ phase = "begun"
    /\ remote.nrows = MaxRows
    /\ fetched = MaxRows
    /\ slot = EmptySlot
    /\ raised = NoErr
    /\ counts.query = 1

(* The bytes of a text made of the characters of a hex dump, as errmsg     *)
(* prints them for a %s argument: the ASCII codes.                         *)
CharCode(ch) ==
    IF ch = " " THEN 32
    ELSE IF ch = "x" THEN 120
    ELSE LET i == CHOOSE k \in 1..Len(HexDigits) : HexDigits[k] = ch
         IN  IF i <= 10 THEN 47 + i ELSE 86 + i

CharCodes(text) == [i \in 1..Len(text) |-> CharCode(text[i])]

(***************************************************************************)
(* C21: every warning recorded for a field that failed the encoding check  *)
(* prints, as the byte sequence it reports, the hex dump of at most 8      *)
(* bytes of the field, and not the bytes of the field themselves.          *)
(*                                                                         *)
(* The code builds the hex dump in buf (lines 601-606) and hands mbstr,    *)
(* the field itself, to errmsg (lines 607-611): buf is never printed.      *)
(***************************************************************************)
C21_WarningReportsHexDump ==
    \A i \in 1..Len(conv.warnings) :
        LET w == conv.warnings[i]
        IN  /\ Len(w.buf) <= HexBufLimit * 5
            /\ w.arg = CharCodes(w.buf)

(***************************************************************************)
(* C22: while a row is converted the descriptor is read only at positions  *)
(* below its number of columns and the values and nulls arrays are written *)
(* only at positions below their allocated length, so the conversion never *)
(* ends the backend.                                                       *)
(*                                                                         *)
(* The arrays are allocated with num_fields slots (lines 677-678) and the  *)
(* loops test x alone (line 680) or nothing (line 683): a dropped column   *)
(* moves y past the arrays, and more fields than columns, or dropped       *)
(* columns at the end, move it past the descriptor.                        *)
(***************************************************************************)
C22_PositionInBounds ==
    /\ \A y \in conv.reads : y < conv.natts
    /\ \A w \in conv.writes : w.y < conv.alloc
    /\ conv.status # "crash"

====
